---- MODULE Spec2Model ----
(***************************************************************************)
(* ResumeBot (src/app-final.py): the three text extractors behind          *)
(* read_any, the completion helper call_llm_chat, and one run of main.     *)
(*                                                                         *)
(* Text is a sequence of Unicode code points, a byte string a sequence of  *)
(* integers 0..255, a file name a sequence of one-character strings.       *)
(* Python's None is NoneVal (text) or NoneName (file name); a raised       *)
(* exception is the field raised of an operation's result.                 *)
(***************************************************************************)
EXTENDS Integers, Sequences, FiniteSets, TLC

VARIABLES
    libs,      \* module globals PdfReader and docx: TRUE when the import succeeded
    stream,    \* the byte stream handed to read_any when it is called directly
    session,   \* st.session_state
    ui,        \* what the user entered in the widgets of main
    world,     \* credential stores, OpenAI SDK and completion service
    last       \* the operation that ran last, with what it returned and emitted

vars == <<libs, stream, session, ui, world, last>>

(***************************************************************************)
(* Bounds                                                                  *)
(***************************************************************************)
MaxBytes == 2   \* longest byte content of a stream
MaxPages == 2   \* most pages (paragraphs) of a parsed document
MaxText == 1    \* longest text typed into a text area

(***************************************************************************)
(* Python values                                                           *)
(***************************************************************************)
NoneVal == <<-1>>            \* None where a str is expected
RaisesVal == <<-2>>          \* a page whose text extraction raises
NoneName == <<"<None>">>     \* None given as the file name
NL == <<10>>                 \* "\n"

\* bool(x) of an optional str
Truthy(x) == x # NoneVal /\ Len(x) > 0

\* str.isspace of one code point
IsSpace(c) ==
    \/ c \in 9..13
    \/ c \in 28..32
    \/ c \in {133, 160, 5760, 8232, 8233, 8239, 8287, 12288}
    \/ c \in 8192..8202

\* str.strip()
Strip(t) ==
    LET keep == {i \in 1..Len(t) : ~IsSpace(t[i])}
        lo == CHOOSE i \in keep : \A j \in keep : i <= j
        hi == CHOOSE i \in keep : \A j \in keep : j <= i
    IN  IF keep = {} THEN <<>> ELSE SubSeq(t, lo, hi)

\* sep.join(parts)
RECURSIVE Join(_, _)
Join(sep, parts) ==
    IF parts = <<>> THEN <<>>
    ELSE IF Len(parts) = 1 THEN parts[1]
    ELSE parts[1] \o sep \o Join(sep, Tail(parts))

UpperLetters ==
    <<"A", "B", "C", "D", "E", "F", "G", "H", "I", "J", "K", "L", "M",
      "N", "O", "P", "Q", "R", "S", "T", "U", "V", "W", "X", "Y", "Z">>
LowerLetters ==
    <<"a", "b", "c", "d", "e", "f", "g", "h", "i", "j", "k", "l", "m",
      "n", "o", "p", "q", "r", "s", "t", "u", "v", "w", "x", "y", "z">>

\* str.lower()
Lower(s) ==
    [i \in 1..Len(s) |->
        IF \E k \in 1..Len(UpperLetters) : UpperLetters[k] = s[i]
        THEN LowerLetters[CHOOSE k \in 1..Len(UpperLetters) : UpperLetters[k] = s[i]]
        ELSE s[i]]

\* str.endswith(suffix)
EndsWith(s, suffix) ==
    /\ Len(suffix) <= Len(s)
    /\ SubSeq(s, Len(s) - Len(suffix) + 1, Len(s)) = suffix

(***************************************************************************)
(* bytes.decode                                                            *)
(***************************************************************************)
IsCont(b, j) == j <= Len(b) /\ b[j] >= 128 /\ b[j] <= 191

\* length of the well-formed UTF-8 sequence that starts at b[i]; 0 when none does
CharLen(b, i) ==
    LET c == b[i]
    IN  IF c < 128 THEN 1
        ELSE IF c >= 194 /\ c <= 223 /\ IsCont(b, i + 1) THEN 2
        ELSE IF /\ c >= 224 /\ c <= 239
                /\ IsCont(b, i + 1) /\ IsCont(b, i + 2)
                /\ (c = 224 => b[i + 1] >= 160)
                /\ (c = 237 => b[i + 1] <= 159) THEN 3
        ELSE IF /\ c >= 240 /\ c <= 244
                /\ IsCont(b, i + 1) /\ IsCont(b, i + 2) /\ IsCont(b, i + 3)
                /\ (c = 240 => b[i + 1] >= 144)
                /\ (c = 244 => b[i + 1] <= 143) THEN 4
        ELSE 0

CodePoint(b, i, n) ==
    IF n = 1 THEN b[i]
    ELSE IF n = 2 THEN (b[i] - 192) * 64 + (b[i + 1] - 128)
    ELSE IF n = 3 THEN (b[i] - 224) * 4096 + (b[i + 1] - 128) * 64 + (b[i + 2] - 128)
    ELSE (b[i] - 240) * 262144 + (b[i + 1] - 128) * 4096
         + (b[i + 2] - 128) * 64 + (b[i + 3] - 128)

\* content.decode("utf-8") from position i on: ok = FALSE is UnicodeDecodeError
RECURSIVE Utf8From(_, _)
Utf8From(b, i) ==
    IF i > Len(b) THEN [ok |-> TRUE, text |-> <<>>]
    ELSE LET n == CharLen(b, i)
         IN  IF n = 0 THEN [ok |-> FALSE, text |-> <<>>]
             ELSE LET r == Utf8From(b, i + n)
                  IN  [ok |-> r.ok,
                       text |-> IF r.ok THEN <<CodePoint(b, i, n)>> \o r.text ELSE <<>>]

Utf8Decode(b) == Utf8From(b, 1)

\* content.decode("latin-1", errors="ignore"): byte k is code point k, none is dropped
Latin1Decode(b) == [i \in 1..Len(b) |-> b[i]]

(***************************************************************************)
(* File parsing helpers.  A stream f is                                    *)
(*   [name, bytes, pos, readOk, seekOk, doc]                               *)
(* readOk / seekOk: whether read / seek on it succeed or raise;            *)
(* doc = [corrupt, items, left]: what the parsing library finds in it,     *)
(* items being the text of each PDF page (or DOCX paragraph) in order,     *)
(* NoneVal for a page without text and RaisesVal for one whose extraction  *)
(* raises, and left the position the library leaves the stream at.         *)
(* A result is [raised, ret, pos, notes, ops]: pos the stream position     *)
(* afterwards, notes the st.warning/st.error calls made, ops the stream    *)
(* operations made.                                                        *)
(***************************************************************************)
ReadTxt(f) ==
    LET content == SubSeq(f.bytes, f.pos + 1, Len(f.bytes))
        u == Utf8Decode(content)
        afterRead == IF f.readOk THEN Len(f.bytes) ELSE f.pos
    IN  [raised |-> ~f.readOk \/ ~f.seekOk,
         ret |-> IF ~f.readOk \/ ~f.seekOk THEN <<>>
                 ELSE IF u.ok THEN u.text ELSE Latin1Decode(content),
         pos |-> IF f.seekOk THEN 0 ELSE afterRead,
         notes |-> 0,
         ops |-> 2]

NonBlankParagraph(t) == Truthy(Strip(t))

ReadDocx(f, lib) ==
    IF ~lib
    THEN [raised |-> FALSE, ret |-> <<>>, pos |-> f.pos, notes |-> 1, ops |-> 0]
    ELSE LET items == f.doc.items
             failed ==
                 \/ ~f.readOk
                 \/ f.doc.corrupt
                 \/ \E i \in 1..Len(items) : items[i] \in {NoneVal, RaisesVal}
             text == IF failed THEN <<>>
                     ELSE Join(NL, SelectSeq(items, NonBlankParagraph))
         IN  [raised |-> ~f.seekOk,
              ret |-> IF f.seekOk THEN text ELSE <<>>,
              pos |-> IF f.seekOk THEN 0 ELSE f.doc.left,
              notes |-> IF failed THEN 1 ELSE 0,
              ops |-> 2]

\* the loop of read_pdf over reader.pages
RECURSIVE PdfParts(_)
PdfParts(items) ==
    IF items = <<>> THEN <<>>
    ELSE LET h == Head(items)
         IN  (IF h = RaisesVal THEN <<>>
              ELSE IF Truthy(h) THEN <<h>>
              ELSE << <<>> >>)
             \o PdfParts(Tail(items))

\* read_pdf with the capability test moved inside the try block
ReadPdfTouching(f, lib) ==
    LET failed == ~f.readOk \/ f.doc.corrupt
        text == IF ~lib \/ failed THEN <<>> ELSE Join(NL, PdfParts(f.doc.items))
    IN  [raised |-> ~f.seekOk,
         ret |-> IF f.seekOk THEN text ELSE <<>>,
         pos |-> IF f.seekOk THEN 0 ELSE IF lib THEN f.doc.left ELSE f.pos,
         notes |-> IF ~lib \/ failed THEN 1 ELSE 0,
         ops |-> IF lib THEN 2 ELSE 1]

ReadPdf(f, lib) ==
    IF ~lib
    THEN [raised |-> FALSE, ret |-> <<>>, pos |-> f.pos, notes |-> 1, ops |-> 0]
    ELSE LET failed == ~f.readOk \/ f.doc.corrupt
             text == IF failed THEN <<>> ELSE Join(NL, PdfParts(f.doc.items))
         IN  [raised |-> ~f.seekOk,
              ret |-> IF f.seekOk THEN text ELSE <<>>,
              pos |-> IF f.seekOk THEN 0 ELSE f.doc.left,
              notes |-> IF failed THEN 1 ELSE 0,
              ops |-> 2]

NameLower(name) == Lower(IF name = NoneName THEN <<>> ELSE name)

IsPdfName(name) == EndsWith(NameLower(name), <<".", "p", "d", "f">>)
IsDocxName(name) == EndsWith(NameLower(name), <<".", "d", "o", "c", "x">>)

ReadAny(f, name, lb) ==
    IF IsPdfName(name) THEN ReadPdf(f, lb.PdfReader)
    ELSE IF IsDocxName(name) THEN ReadDocx(f, lb.docx)
    ELSE ReadTxt(f)

(***************************************************************************)
(* OpenAI client helper.  The world is [secrets, getenv, sdk, ctor, svc]:  *)
(* what st.secrets.get and os.getenv give for OPENAI_API_KEY ("<raise>":   *)
(* the lookup raises, "<None>": no entry), whether `from openai import     *)
(* OpenAI` succeeds, whether OpenAI(api_key=...) succeeds, and what the    *)
(* completion service does with a request.                                 *)
(***************************************************************************)
NoClientMsg ==
    <<77, 105, 115, 115, 105, 110, 103, 32, 111, 114, 32, 105, 110, 118, 97, 108, 105, 100, 32, 79, 112, 101, 110, 65, 73, 32, 115, 101, 116, 117, 112, 46, 32, 80, 108, 101, 97, 115, 101, 32, 99, 111, 110, 102, 105, 103, 117, 114, 101, 32, 79, 80, 69, 78, 65, 73, 95, 65, 80, 73, 95, 75, 69, 89, 32, 97, 110, 100, 32, 105, 110, 115, 116, 97, 108, 108, 32, 39, 111, 112, 101, 110, 97, 105, 62, 61, 49, 46, 48, 39, 46>>

LlmErrorMsg ==
    <<84, 104, 101, 114, 101, 32, 119, 97, 115, 32, 97, 110, 32, 101, 114, 114, 111, 114, 32, 99, 97, 108, 108, 105, 110, 103, 32, 116, 104, 101, 32, 76, 76, 77, 46, 32, 67, 104, 101, 99, 107, 32, 121, 111, 117, 114, 32, 65, 80, 73, 32, 107, 101, 121, 44, 32, 98, 105, 108, 108, 105, 110, 103, 44, 32, 83, 68, 75, 32, 118, 101, 114, 115, 105, 111, 110, 44, 32, 97, 110, 100, 32, 109, 111, 100, 101, 108, 32, 110, 97, 109, 101, 46>>

\* bool(k) of an optional key
KeyTruthy(k) == k \notin {"<None>", "<raise>", ""}

\* the api_key get_openai_client ends up with
ApiKey(w) ==
    LET fromSecrets == IF w.secrets = "<raise>" THEN "<None>" ELSE w.secrets
    IN  IF KeyTruthy(fromSecrets) THEN fromSecrets ELSE w.getenv

\* get_openai_client that tests only the key
GetOpenaiClientKeyOnly(w) ==
    IF ~KeyTruthy(ApiKey(w))
    THEN [raised |-> FALSE, some |-> FALSE, api_key |-> "<None>", notes |-> 1]
    ELSE IF ~w.sdk \/ ~w.ctor
    THEN [raised |-> TRUE, some |-> FALSE, api_key |-> "<None>", notes |-> 0]
    ELSE [raised |-> FALSE, some |-> TRUE, api_key |-> ApiKey(w), notes |-> 0]

\* some = FALSE: the function returned None
GetOpenaiClient(w) ==
    IF ~w.sdk
    THEN [raised |-> FALSE, some |-> FALSE, api_key |-> "<None>", notes |-> 1]
    ELSE IF ~KeyTruthy(ApiKey(w))
    THEN [raised |-> FALSE, some |-> FALSE, api_key |-> "<None>", notes |-> 1]
    ELSE IF ~w.ctor
    THEN [raised |-> TRUE, some |-> FALSE, api_key |-> "<None>", notes |-> 0]
    ELSE [raised |-> FALSE, some |-> TRUE, api_key |-> ApiKey(w), notes |-> 0]

ChatRequest(api_key, system_prompt, user_prompt) ==
    [api_key |-> api_key,
     model |-> "gpt-4o-mini",
     messages |-> <<[role |-> "system", content |-> system_prompt],
                    [role |-> "user", content |-> user_prompt]>>,
     temperature |-> "0.2"]

\* call_llm_chat that tries the request once more when it raised
CallLlmChatRetrying(w, system_prompt, user_prompt) ==
    LET c == GetOpenaiClient(w)
        req == ChatRequest(c.api_key, system_prompt, user_prompt)
    IN  IF c.raised
        THEN [raised |-> TRUE, ret |-> <<>>, notes |-> c.notes, requests |-> <<>>]
        ELSE IF ~c.some
        THEN [raised |-> FALSE, ret |-> NoClientMsg, notes |-> c.notes, requests |-> <<>>]
        ELSE IF w.svc.kind = "ok"
        THEN [raised |-> FALSE, ret |-> w.svc.content, notes |-> c.notes,
              requests |-> <<req>>]
        ELSE [raised |-> FALSE, ret |-> LlmErrorMsg, notes |-> c.notes + 1,
              requests |-> <<req, req>>]

\* requests: the requests sent to the completion service, in order
CallLlmChat(w, system_prompt, user_prompt) ==
    LET c == GetOpenaiClient(w)
        req == ChatRequest(c.api_key, system_prompt, user_prompt)
    IN  IF c.raised
        THEN [raised |-> TRUE, ret |-> <<>>, notes |-> c.notes, requests |-> <<>>]
        ELSE IF ~c.some
        THEN [raised |-> FALSE, ret |-> NoClientMsg, notes |-> c.notes, requests |-> <<>>]
        ELSE IF w.svc.kind = "ok"
        THEN [raised |-> FALSE, ret |-> w.svc.content, notes |-> c.notes,
              requests |-> <<req>>]
        ELSE [raised |-> FALSE, ret |-> LlmErrorMsg, notes |-> c.notes + 1,
              requests |-> <<req>>]

(***************************************************************************)
(* main                                                                    *)
(***************************************************************************)
SystemPrompt ==
    <<89, 111, 117, 32, 97, 114, 101, 32, 97, 32, 104, 101, 108, 112, 102, 117, 108, 32, 97, 115, 115, 105, 115, 116, 97, 110, 116, 32, 116, 104, 97, 116, 32, 119, 114, 105, 116, 101, 115, 32, 116, 97, 105, 108, 111, 114, 101, 100, 32, 99, 111, 118, 101, 114, 32, 108, 101, 116, 116, 101, 114, 115, 32, 97, 110, 100, 32, 98, 117, 108, 108, 101, 116, 32, 112, 111, 105, 110, 116, 115, 32, 116, 104, 97, 116, 32, 109, 97, 112, 32, 97, 32, 114, 101, 115, 117, 109, 101, 32, 116, 111, 32, 97, 32, 103, 105, 118, 101, 110, 32, 106, 111, 98, 32, 100, 101, 115, 99, 114, 105, 112, 116, 105, 111, 110, 46, 32, 66, 101, 32, 99, 111, 110, 99, 105, 115, 101, 32, 97, 110, 100, 32, 115, 112, 101, 99, 105, 102, 105, 99, 46>>

\* "JOB DESCRIPTION:\n"
JdLabel ==
    <<74, 79, 66, 32, 68, 69, 83, 67, 82, 73, 80, 84, 73, 79, 78, 58, 10>>

\* "\n\nRESUME / PROFILE:\n"
CvLabel ==
    <<10, 10, 82, 69, 83, 85, 77, 69, 32, 47, 32, 80, 82, 79, 70, 73, 76, 69, 58, 10>>

\* "\n\nEXTRA NOTES:\n"
NotesLabel ==
    <<10, 10, 69, 88, 84, 82, 65, 32, 78, 79, 84, 69, 83, 58, 10>>

\* "\n\nTASK: "
TaskLabel ==
    <<10, 10, 84, 65, 83, 75, 58, 32>>

CoverTask ==
    <<87, 114, 105, 116, 101, 32, 97, 32, 116, 97, 105, 108, 111, 114, 101, 100, 32, 99, 111, 118, 101, 114, 32, 108, 101, 116, 116, 101, 114, 32, 40, 60, 61, 32, 51, 48, 48, 32, 119, 111, 114, 100, 115, 41, 46>>

BulletsTask ==
    <<87, 114, 105, 116, 101, 32, 54, 8211, 56, 32, 113, 117, 97, 110, 116, 105, 102, 105, 101, 100, 32, 114, 101, 115, 117, 109, 101, 32, 98, 117, 108, 108, 101, 116, 32, 112, 111, 105, 110, 116, 115, 32, 109, 97, 112, 112, 101, 100, 32, 116, 111, 32, 116, 104, 101, 32, 74, 68, 44, 32, 103, 114, 111, 117, 112, 101, 100, 32, 98, 121, 32, 116, 104, 101, 109, 101, 46>>

\* the upload slot of a file_uploader nothing was uploaded to
NoFile ==
    [name |-> NoneName, bytes |-> <<>>, pos |-> 0, readOk |-> TRUE, seekOk |-> TRUE,
     doc |-> [corrupt |-> TRUE, items |-> <<>>, left |-> 0]]

JdMissing(jd_text) == ~Truthy(Strip(jd_text))

\* the second test without the two strip() calls
ProfileMissingUnstripped(parsed_cv, profile_extra) ==
    ~(Truthy(parsed_cv) \/ Truthy(profile_extra))

ProfileMissing(parsed_cv, profile_extra) ==
    ~(Truthy(Strip(parsed_cv)) \/ Truthy(Strip(profile_extra)))

TaskLine(gen_cover) == IF gen_cover THEN CoverTask ELSE BulletsTask

\* the f-string with the resume and the notes placeholders exchanged
UserPromptSwapped(jd_text, parsed_cv, profile_extra, gen_cover) ==
    JdLabel \o jd_text \o CvLabel \o profile_extra \o NotesLabel \o parsed_cv
    \o TaskLabel \o TaskLine(gen_cover) \o NL

UserPrompt(jd_text, parsed_cv, profile_extra, gen_cover) ==
    JdLabel \o jd_text \o CvLabel \o parsed_cv \o NotesLabel \o profile_extra
    \o TaskLabel \o TaskLine(gen_cover) \o NL

\* the result area that writes the output whatever it is
DisplayedAlways(output) == [shown |-> TRUE, text |-> output]

\* `if output:` and st.write(output)
Displayed(output) ==
    IF Truthy(output) THEN [shown |-> TRUE, text |-> output]
    ELSE [shown |-> FALSE, text |-> <<>>]

\* the block under "3) Generate": lines 199-218
Generate(jd_text, parsed_cv, profile_extra, gen_cover, gen_bullets, w) ==
    IF ~(gen_cover \/ gen_bullets)
    THEN [raised |-> FALSE, output |-> <<>>, notes |-> 0, requests |-> <<>>]
    ELSE IF JdMissing(jd_text)
    THEN [raised |-> FALSE, output |-> <<>>, notes |-> 1, requests |-> <<>>]
    ELSE IF ProfileMissing(parsed_cv, profile_extra)
    THEN [raised |-> FALSE, output |-> <<>>, notes |-> 1, requests |-> <<>>]
    ELSE LET r == CallLlmChat(w, SystemPrompt,
                              UserPrompt(jd_text, parsed_cv, profile_extra, gen_cover))
         IN  [raised |-> r.raised, output |-> r.ret, notes |-> r.notes,
              requests |-> r.requests]

\* One run of main.  The result gives the session's jd_text and the two stream
\* positions afterwards; notes leaves out the status line of the sidebar.
Main(u, sess, w, lb, gen_cover, gen_bullets) ==
    LET hasJd == u.jd_file # NoFile
        hasCv == u.cv_file # NoFile
        rj == ReadAny(u.jd_file, u.jd_file.name, lb)
        rc == ReadAny(u.cv_file, u.cv_file.name, lb)
        jd_text == IF hasJd THEN rj.ret ELSE u.jd_text_area
        parsed_cv == IF hasCv THEN rc.ret ELSE <<>>
        readNotes == (IF hasJd THEN rj.notes ELSE 0) + (IF hasCv THEN rc.notes ELSE 0)
        g == Generate(jd_text, parsed_cv, u.profile_extra, gen_cover, gen_bullets, w)
        nothing == [shown |-> FALSE, text |-> <<>>]
    IN  IF hasJd /\ rj.raised
        THEN [raised |-> TRUE, jd_text |-> sess.jd_text, jd_pos |-> rj.pos,
              cv_pos |-> u.cv_file.pos, parsed_cv |-> <<>>, output |-> <<>>,
              displayed |-> nothing, notes |-> rj.notes, requests |-> <<>>]
        ELSE IF hasCv /\ rc.raised
        THEN [raised |-> TRUE, jd_text |-> jd_text,
              jd_pos |-> IF hasJd THEN rj.pos ELSE 0,
              cv_pos |-> rc.pos, parsed_cv |-> <<>>, output |-> <<>>,
              displayed |-> nothing, notes |-> readNotes, requests |-> <<>>]
        ELSE [raised |-> g.raised, jd_text |-> jd_text,
              jd_pos |-> IF hasJd THEN rj.pos ELSE 0,
              cv_pos |-> IF hasCv THEN rc.pos ELSE 0,
              parsed_cv |-> parsed_cv, output |-> g.output,
              displayed |-> IF g.raised THEN nothing ELSE Displayed(g.output),
              notes |-> readNotes + g.notes, requests |-> g.requests]

(***************************************************************************)
(* Inputs                                                                  *)
(***************************************************************************)
SeqsUpTo(S, n) == UNION {[1..k -> S] : k \in 0..n}

DearText ==
    <<68, 101, 97, 114, 32, 72, 105, 114, 105, 110, 103, 32, 77, 97, 110, 97, 103, 101, 114, 46, 46, 46>>

\* "a", 0xC3 and 0xA9: ASCII, a two-byte UTF-8 sequence, and its halves alone
ByteSeqs == SeqsUpTo({97, 195, 169}, MaxBytes)

\* "PK"
DocBytes == <<80, 75>>

Names ==
    {NoneName, <<>>,
     <<"c", ".", "p", "d", "f">>, <<"c", ".", "P", "d", "F">>,
     <<"c", ".", "d", "o", "c", "x">>, <<"c", ".", "t", "x", "t">>}

PageTexts == {RaisesVal, NoneVal, <<32>>, <<97>>}

\* streams no parsing library can open, and streams that hold a document
RawFiles ==
    {[name |-> n, bytes |-> b, pos |-> 0, readOk |-> r, seekOk |-> k,
      doc |-> [corrupt |-> TRUE, items |-> <<>>, left |-> 0]] :
        n \in Names, b \in ByteSeqs, r \in BOOLEAN, k \in BOOLEAN}

DocFiles ==
    {[name |-> n, bytes |-> DocBytes, pos |-> 0, readOk |-> r, seekOk |-> k,
      doc |-> [corrupt |-> FALSE, items |-> d, left |-> IF k THEN 0 ELSE Len(DocBytes)]] :
        n \in Names, d \in SeqsUpTo(PageTexts, MaxPages), r \in BOOLEAN, k \in BOOLEAN}

Libs == [PdfReader : BOOLEAN, docx : BOOLEAN]

SvcOutcomes ==
    {[kind |-> "raise", content |-> <<>>]}
    \cup {[kind |-> "ok", content |-> c] : c \in {NoneVal, <<>>, DearText, NoClientMsg}}

Worlds ==
    [secrets : {"<raise>", "<None>", "", "sk-secrets"},
     getenv : {"<None>", "", "sk-env"},
     sdk : BOOLEAN, ctor : BOOLEAN, svc : SvcOutcomes]

Texts == SeqsUpTo({32, 97}, MaxText)

\* what the two file_uploader widgets of main may hold
Uploads ==
    {NoFile,
     [name |-> <<"c", ".", "t", "x", "t">>, bytes |-> <<97>>, pos |-> 0,
      readOk |-> TRUE, seekOk |-> TRUE,
      doc |-> [corrupt |-> TRUE, items |-> <<>>, left |-> 0]],
     [name |-> <<"c", ".", "t", "x", "t">>, bytes |-> <<>>, pos |-> 0,
      readOk |-> FALSE, seekOk |-> TRUE,
      doc |-> [corrupt |-> TRUE, items |-> <<>>, left |-> 0]],
     [name |-> <<"c", ".", "P", "d", "F">>, bytes |-> DocBytes, pos |-> 0,
      readOk |-> TRUE, seekOk |-> TRUE,
      doc |-> [corrupt |-> FALSE, items |-> <<NoneVal, <<32>> >>, left |-> 0]]}

\* the worlds main is run in: four of the credential configurations, and the
\* service raising or answering None, "" or DearText
MainWorlds ==
    {w \in Worlds :
        /\ <<w.secrets, w.getenv>> \in
               {<<"<None>", "<None>">>, <<"", "">>,
                <<"<raise>", "sk-env">>, <<"sk-secrets", "">>}
        /\ w.svc.content \in {NoneVal, <<>>, DearText}}

NoUi ==
    [jd_file |-> NoFile, jd_text_area |-> <<>>, cv_file |-> NoFile,
     profile_extra |-> <<>>]

NoWorld ==
    [secrets |-> "<None>", getenv |-> "<None>", sdk |-> FALSE, ctor |-> FALSE,
     svc |-> [kind |-> "raise", content |-> <<>>]]

\* init_state
InitState == [jd_text |-> <<>>]

(***************************************************************************)
(* read_any called on a stream: specification SpecExtract                  *)
(***************************************************************************)
InitExtract ==
    /\ libs \in Libs
    /\ stream \in RawFiles \cup DocFiles
    /\ session = InitState
    /\ ui = NoUi
    /\ world = NoWorld
    /\ last = [op |-> "init"]

\* another consumer of the stream reads one byte of it
Consume ==
    /\ stream.readOk
    /\ stream.pos < Len(stream.bytes)
    /\ stream' = [stream EXCEPT !.pos = @ + 1]
    /\ last' = [op |-> "consume"]
    /\ UNCHANGED <<libs, session, ui, world>>

ReadAnyCall ==
    \E r \in {ReadAny(stream, stream.name, libs)} :
        /\ stream' = [stream EXCEPT !.pos = r.pos]
        /\ last' = [op |-> "read_any", before |-> stream.pos, raised |-> r.raised,
                    ret |-> r.ret, notes |-> r.notes, ops |-> r.ops]
        /\ UNCHANGED <<libs, session, ui, world>>

NextExtract == Consume \/ ReadAnyCall

SpecExtract == InitExtract /\ [][NextExtract]_vars

(***************************************************************************)
(* call_llm_chat called with a prompt: specification SpecComplete          *)
(***************************************************************************)
InitComplete ==
    /\ libs = [PdfReader |-> TRUE, docx |-> TRUE]
    /\ stream = NoFile
    /\ session = InitState
    /\ ui = NoUi
    /\ world \in Worlds
    /\ last = [op |-> "init"]

CallLlmChatCall ==
    \E user_prompt \in Texts :
        \E r \in {CallLlmChat(world, SystemPrompt, user_prompt)} :
            /\ last' = [op |-> "call_llm_chat", raised |-> r.raised, ret |-> r.ret,
                        notes |-> r.notes, requests |-> r.requests]
            /\ UNCHANGED <<libs, stream, session, ui, world>>

NextComplete == CallLlmChatCall

SpecComplete == InitComplete /\ [][NextComplete]_vars

(***************************************************************************)
(* Runs of main: specification Spec.  A click makes one run in which that  *)
(* button alone is True; any other interaction makes a run with neither.   *)
(***************************************************************************)
Init ==
    /\ libs = [PdfReader |-> TRUE, docx |-> TRUE]
    /\ stream = NoFile
    /\ session = InitState
    /\ ui \in [jd_file : Uploads, jd_text_area : Texts, cv_file : Uploads,
               profile_extra : Texts]
    /\ world \in MainWorlds
    /\ last = [op |-> "init"]

MainRun ==
    \E b \in {<<FALSE, FALSE>>, <<TRUE, FALSE>>, <<FALSE, TRUE>>} :
        \E r \in {Main(ui, session, world, libs, b[1], b[2])} :
            /\ session' = [session EXCEPT !.jd_text = r.jd_text]
            /\ ui' = [ui EXCEPT !.jd_file.pos = r.jd_pos, !.cv_file.pos = r.cv_pos]
            /\ last' = [op |-> "main", gen_cover |-> b[1], gen_bullets |-> b[2],
                        raised |-> r.raised, parsed_cv |-> r.parsed_cv,
                        output |-> r.output, displayed |-> r.displayed,
                        notes |-> r.notes, requests |-> r.requests]
            /\ UNCHANGED <<libs, stream, world>>

Next == MainRun

Spec == Init /\ [][Next]_vars

(***************************************************************************)
(* Properties                                                              *)
(***************************************************************************)
PdfNames == {<<"c", ".", "p", "d", "f">>, <<"c", ".", "P", "d", "F">>}
DocxNames == {<<"c", ".", "d", "o", "c", "x">>}

\* some character of t is not white space
NonBlank(t) == \E i \in 1..Len(t) : ~IsSpace(t[i])

\* a non-empty OPENAI_API_KEY is in the secrets store or in the environment
CredResolvable(w) == w.secrets = "sk-secrets" \/ w.getenv = "sk-env"

AfterReadAny == last.op = "read_any"
AfterCall == last.op = "call_llm_chat"
AfterMain == last.op = "main"

\* C1 as stated: call_llm_chat returns the no-credential fallback string if and
\* only if no credential is resolvable from the secrets store or the environment.
C1_FallbackIffNoCredential ==
    AfterCall =>
        ((~last.raised /\ last.ret = NoClientMsg) <=> ~CredResolvable(world))

\* C1 amended: call_llm_chat returns the fallback string without sending a
\* request if and only if no credential is resolvable or the OpenAI SDK cannot
\* be imported, whatever the credential stores, the SDK and the service do.
C1_FallbackIffNoClient ==
    AfterCall =>
        ((~last.raised /\ last.ret = NoClientMsg /\ last.requests = <<>>)
            <=> (~CredResolvable(world) \/ ~world.sdk))

C1_Witness ==
    /\ AfterCall
    /\ CredResolvable(world) /\ ~world.sdk
    /\ ~last.raised /\ last.ret = NoClientMsg /\ last.requests = <<>>

\* C2: a run of main sends a request to the completion service only if a
\* generate button was clicked, the job description is non-blank, the parsed
\* resume or the extra notes are non-blank and a credential is resolvable; and
\* it sends at most one.
C2_RequestOnlyWhenValid ==
    (AfterMain /\ last.requests # <<>>) =>
        /\ last.gen_cover \/ last.gen_bullets
        /\ NonBlank(session.jd_text)
        /\ NonBlank(last.parsed_cv) \/ NonBlank(ui.profile_extra)
        /\ CredResolvable(world)
        /\ Len(last.requests) = 1

C2_Witness ==
    /\ AfterMain
    /\ Len(last.requests) = 1
    /\ ~NonBlank(last.parsed_cv)
    /\ ui.jd_file # NoFile

\* C3 as stated: read_any never raises to its caller, whatever the file name and
\* whether the stream's read and seek succeed or fail.
C3_NeverRaises == AfterReadAny => ~last.raised

\* C4 as stated: after read_any returns, the stream is at position 0 on every
\* path and whatever its position was before the call.
C4_PositionRestored == (AfterReadAny /\ ~last.raised) => stream.pos = 0

\* C5: with the PDF (DOCX) library unavailable, read_any on a .pdf (.docx) file
\* returns the empty string, emits exactly one notification and makes no
\* operation on the stream, which stays where it was.
C5_MissingCapability ==
    (/\ AfterReadAny
     /\ \/ stream.name \in PdfNames /\ ~libs.PdfReader
        \/ stream.name \in DocxNames /\ ~libs.docx) =>
        /\ ~last.raised
        /\ last.ret = <<>>
        /\ last.notes = 1
        /\ last.ops = 0
        /\ stream.pos = last.before

C5_Witness ==
    /\ AfterReadAny
    /\ stream.name \in PdfNames /\ ~libs.PdfReader
    /\ ~stream.doc.corrupt /\ Len(stream.doc.items) > 0
    /\ ~stream.seekOk
    /\ last.before > 0
    /\ last.ret = <<>> /\ last.notes = 1

\* C6: when the request raises, call_llm_chat returns the generic error string,
\* emits exactly one notification and has sent exactly one request.
C6_ServiceFailure ==
    (/\ AfterCall
     /\ CredResolvable(world) /\ world.sdk /\ world.ctor
     /\ world.svc.kind = "raise") =>
        /\ ~last.raised
        /\ last.ret = LlmErrorMsg
        /\ last.notes = 1
        /\ Len(last.requests) = 1

C6_Witness ==
    /\ AfterCall
    /\ world.svc.kind = "raise"
    /\ last.ret = LlmErrorMsg
    /\ Len(last.requests) = 1

\* C7 as stated: call_llm_chat never raises, whatever the credential lookup, the
\* SDK import, the construction of the client and the request do.
C7_NeverRaises == AfterCall => ~last.raised

\* C8: the user message of the request is the job description, the resume text,
\* the extra notes and the task line, each unaltered after its heading and in
\* that order, the task line being the cover-letter one when that button was
\* clicked and the bullet-points one otherwise.
C8_PromptSections ==
    (AfterMain /\ last.requests # <<>>) =>
        LET u == last.requests[1].messages[2].content
            jd == session.jd_text
            cv == last.parsed_cv
            nt == ui.profile_extra
            task == IF last.gen_cover THEN CoverTask ELSE BulletsTask
            a == Len(JdLabel)
            b == a + Len(jd) + Len(CvLabel)
            c == b + Len(cv) + Len(NotesLabel)
            d == c + Len(nt) + Len(TaskLabel)
        IN  /\ Len(u) = d + Len(task) + 1
            /\ SubSeq(u, 1, a) = JdLabel
            /\ SubSeq(u, a + 1, a + Len(jd)) = jd
            /\ SubSeq(u, a + Len(jd) + 1, b) = CvLabel
            /\ SubSeq(u, b + 1, b + Len(cv)) = cv
            /\ SubSeq(u, b + Len(cv) + 1, c) = NotesLabel
            /\ SubSeq(u, c + 1, c + Len(nt)) = nt
            /\ SubSeq(u, c + Len(nt) + 1, d) = TaskLabel
            /\ SubSeq(u, d + 1, d + Len(task)) = task
            /\ u[Len(u)] = 10

C8_Witness ==
    /\ AfterMain
    /\ last.requests # <<>>
    /\ last.gen_bullets
    /\ session.jd_text = <<97>>
    /\ last.parsed_cv = <<97>>
    /\ ui.profile_extra = <<32>>

\* the request of the last run of main succeeded with a string as its content
SucceededWithText ==
    /\ AfterMain
    /\ last.requests # <<>>
    /\ world.svc.kind = "ok"
    /\ world.svc.content # NoneVal

\* C9 as stated: when the request succeeds with content r, the result main
\* displays is r, for every r, the empty one included.
C9_DisplayedEqualsResponse ==
    SucceededWithText =>
        last.displayed = [shown |-> TRUE, text |-> world.svc.content]

\* C9 amended: when the request succeeds with a non-empty content r, the result
\* main displays is r; when it succeeds with empty content, main displays no
\* result.
C9_DisplayedNonEmptyResponse ==
    SucceededWithText =>
        IF world.svc.content # <<>>
        THEN last.displayed = [shown |-> TRUE, text |-> world.svc.content]
        ELSE ~last.displayed.shown

C9_Witness ==
    /\ SucceededWithText
    /\ last.displayed = [shown |-> TRUE, text |-> DearText]

\* one entry per page, empty for a page that failed or has no text
EntryPerPage(items) ==
    [i \in 1..Len(items) |->
        IF items[i] \in {RaisesVal, NoneVal} THEN <<>> ELSE items[i]]

\* C10 as stated: read_pdf returns the newline-join of one entry per page of the
\* document, the entry of a page whose extraction failed, or that has no text,
\* being the empty string.
C10_EntryPerPage ==
    (/\ AfterReadAny
     /\ stream.name \in PdfNames /\ libs.PdfReader
     /\ stream.readOk /\ ~stream.doc.corrupt
     /\ ~last.raised) =>
        last.ret = Join(NL, EntryPerPage(stream.doc.items))

====
